---- MODULE Spec2Model ----
(***************************************************************************)
(* go-job-queue: the bounded job queue (a buffered Go channel), the worker *)
(* pool and the per-delivery job processor of services.JobWorker, together *)
(* with the producer handlers.JobHandler.CreateJob and the MongoDB jobs    *)
(* collection seen as a key-addressed store whose calls may fail.          *)
(***************************************************************************)
EXTENDS Naturals, Sequences, FiniteSets

\* ------------------------------------------------------------- bounds
NumJobs == 2          \* CreateJob requests (one fresh ObjectID each)
NumWorkers == 1       \* numWorkers passed to NewJobWorker
QueueSize == 2        \* largest queueSize passed to NewJobWorker
MaxExternal == 1      \* EnqueueJob calls made by callers other than CreateJob

\* ------------------------------------------------------------- constants
MaxRetries == 3

StatusPending == "pending"
StatusProcessing == "processing"
StatusCompleted == "completed"
StatusFailed == "failed"

JobIds == 1..NumJobs
Workers == 1..NumWorkers

\* A payload is a map; it is a set of <<key, value>> pairs here.  The empty
\* map is the one CreateJob rejects.
Payloads == { {}, {<<"fail", TRUE>>}, {<<"fail", FALSE>>} }

VARIABLES
  store,       \* the jobs collection: a function from the inserted ids to records
  jobQueue,    \* JobWorker.jobQueue: the buffered channel's contents, oldest first
  queueSize,   \* the capacity NewJobWorker gave the channel
  stopChan,    \* JobWorker.stopChan: "open" or "closed"
  wpc,         \* each worker goroutine's position
  wjobID,      \* each worker's jobID (0 when it holds none)
  wjob,        \* each worker's local job, decoded by FindOne
  werr,        \* each worker's err, as the last store call left it
  req,         \* each CreateJob request's position
  external,    \* per id, the EnqueueJob calls made by callers other than CreateJob
  panicked,    \* TRUE once a goroutine has panicked, which ends the process
  deliveries   \* per id, how many times a worker has received it (history)

vars == <<store, jobQueue, queueSize, stopChan, wpc, wjobID, wjob, werr, req, external,
          panicked, deliveries>>

NoJob == [payload |-> {}, status |-> "none", retryCount |-> 0]

\* models.Job as CreateJob builds it
NewJob(payload) == [payload |-> payload, status |-> StatusPending, retryCount |-> 0]

ExecFailsOnKey(job) == \E kv \in job.payload : kv[1] = "fail"

\* val, ok := job.Payload["fail"].(bool); ok && val
ExecFails(job) == <<"fail", TRUE>> \in job.payload

\* UpdateOne(ctx, {_id: id}, {$set: fields}) on the collection
UpdateOne(col, id, fields) ==
  [col EXCEPT ![id] = [f \in DOMAIN col[id] |->
                         IF f \in DOMAIN fields THEN fields[f] ELSE col[id][f]]]

\* InsertOne(ctx, job)
InsertOne(col, id, job) ==
  [k \in DOMAIN col \cup {id} |-> IF k = id THEN job ELSE col[k]]

Init ==
  /\ store = [k \in {} |-> NoJob]
  /\ jobQueue = <<>>
  /\ queueSize \in 1..QueueSize
  /\ stopChan = "open"
  /\ wpc = [w \in Workers |-> "new"]
  /\ wjobID = [w \in Workers |-> 0]
  /\ wjob = [w \in Workers |-> NoJob]
  /\ werr = [w \in Workers |-> FALSE]
  /\ req = [j \in JobIds |-> "none"]
  /\ external = [j \in JobIds |-> 0]
  /\ panicked = FALSE
  /\ deliveries = [j \in JobIds |-> 0]

\* ------------------------------------------------------------- JobWorker
\* Start: go jw.worker(i) for i in 1..numWorkers
Start ==
  /\ \A w \in Workers : wpc[w] = "new"
  /\ wpc' = [w \in Workers |-> "select"]
  /\ UNCHANGED <<store, jobQueue, stopChan, wjobID, wjob, werr, req, external, queueSize, panicked, deliveries>>

StopIdempotent ==
  /\ stopChan' = "closed"
  /\ UNCHANGED <<store, jobQueue, wpc, wjobID, wjob, werr, req, external, queueSize,
                 panicked, deliveries>>

\* Stop: close(jw.stopChan); closing a closed channel panics
Stop ==
  /\ IF stopChan = "open"
     THEN stopChan' = "closed" /\ UNCHANGED panicked
     ELSE panicked' = TRUE /\ UNCHANGED stopChan
  /\ UNCHANGED <<store, jobQueue, wpc, wjobID, wjob, werr, req, external, queueSize,
                 deliveries>>

\* main: jobWorker.Stop(), once, when the shutdown signal arrives
mainStop ==
  /\ stopChan = "open"
  /\ Stop

CanSendAlways == TRUE

\* jw.jobQueue <- jobID : possible only while the buffer has room
CanSend == Len(jobQueue) < queueSize

EnqueueJob(id) ==
  /\ CanSend
  /\ jobQueue' = Append(jobQueue, id)

workerReceiveNewest(w) ==
  /\ wpc[w] = "select"
  /\ jobQueue # <<>>
  /\ wjobID' = [wjobID EXCEPT ![w] = jobQueue[Len(jobQueue)]]
  /\ jobQueue' = SubSeq(jobQueue, 1, Len(jobQueue) - 1)
  /\ wpc' = [wpc EXCEPT ![w] = "find"]
  /\ UNCHANGED <<store, stopChan, wjob, werr, req, external, queueSize, panicked, deliveries>>

\* worker, case jobID := <-jw.jobQueue
workerReceive(w) ==
  /\ wpc[w] = "select"
  /\ jobQueue # <<>>
  /\ wjobID' = [wjobID EXCEPT ![w] = Head(jobQueue)]
  /\ jobQueue' = Tail(jobQueue)
  /\ wpc' = [wpc EXCEPT ![w] = "find"]
  /\ UNCHANGED <<store, stopChan, wjob, werr, req, external, queueSize, panicked, deliveries>>

\* worker, case <-jw.stopChan
workerStopped(w) ==
  /\ wpc[w] = "select"
  /\ stopChan = "closed"
  /\ wpc' = [wpc EXCEPT ![w] = "returned"]
  /\ UNCHANGED <<store, jobQueue, stopChan, wjobID, wjob, werr, req, external, queueSize, panicked, deliveries>>

\* processJob returns to the worker loop
EndAttempt(w) ==
  /\ wpc' = [wpc EXCEPT ![w] = "select"]
  /\ wjobID' = [wjobID EXCEPT ![w] = 0]
  /\ wjob' = [wjob EXCEPT ![w] = NoJob]
  /\ werr' = [werr EXCEPT ![w] = FALSE]

processJobFindIgnoresErr(w, oks) ==
  /\ wpc[w] = "find"
  /\ \E ok \in oks :
       /\ wjob' = [wjob EXCEPT ![w] =
                     IF ok /\ wjobID[w] \in DOMAIN store THEN store[wjobID[w]] ELSE NoJob]
       /\ wpc' = [wpc EXCEPT ![w] = "processing"]
       /\ UNCHANGED <<wjobID, werr>>
  /\ UNCHANGED <<store, jobQueue, stopChan, req, external, queueSize, panicked, deliveries>>

\* processJob: FindOne(...).Decode(&job); on an error, return
processJobFind(w, oks) ==
  /\ wpc[w] = "find"
  /\ \E ok \in oks :
       IF ok /\ wjobID[w] \in DOMAIN store
       THEN /\ wjob' = [wjob EXCEPT ![w] = store[wjobID[w]]]
            /\ wpc' = [wpc EXCEPT ![w] = "processing"]
            /\ UNCHANGED <<wjobID, werr>>
       ELSE EndAttempt(w)
  /\ UNCHANGED <<store, jobQueue, stopChan, req, external, queueSize, panicked, deliveries>>

\* processJob: UpdateOne status = processing; on an error, return
processJobProcessing(w, oks) ==
  /\ wpc[w] = "processing"
  /\ \E ok \in oks :
       IF ok
       THEN /\ store' = UpdateOne(store, wjobID[w], [status |-> StatusProcessing])
            /\ wpc' = [wpc EXCEPT ![w] = "execute"]
            /\ UNCHANGED <<wjobID, wjob, werr>>
       ELSE /\ EndAttempt(w)
            /\ UNCHANGED store
  /\ UNCHANGED <<jobQueue, stopChan, req, external, queueSize, panicked, deliveries>>

newRetryCountStale(w) == wjob[w].retryCount

\* newRetryCount := job.RetryCount + 1
newRetryCount(w) == wjob[w].retryCount + 1

RetriesRemainLe(n) == n <= MaxRetries

\* if newRetryCount < MaxRetries
RetriesRemain(n) == n < MaxRetries

\* processJob, failing execution: UpdateOne status = failed, retryCount =
\* newRetryCount; an error is logged and processJob goes on to the requeue test
processJobFailed(w, oks) ==
  /\ wpc[w] = "execute"
  /\ ExecFails(wjob[w])
  /\ \E ok \in oks :
       /\ IF ok
          THEN store' = UpdateOne(store, wjobID[w],
                           [status |-> StatusFailed, retryCount |-> newRetryCount(w)])
          ELSE UNCHANGED store
       /\ IF RetriesRemain(newRetryCount(w))
          THEN /\ wpc' = [wpc EXCEPT ![w] = "requeue"]
               /\ werr' = [werr EXCEPT ![w] = ~ok]
               /\ UNCHANGED <<wjobID, wjob>>
          ELSE EndAttempt(w)
  /\ UNCHANGED <<jobQueue, stopChan, req, external, queueSize, panicked, deliveries>>

processJobRequeueNoReturn(w) ==
  /\ wpc[w] = "requeue"
  /\ EnqueueJob(wjobID[w])
  /\ wpc' = [wpc EXCEPT ![w] = "processing"]
  /\ UNCHANGED <<wjobID, wjob, werr>>
  /\ UNCHANGED <<store, stopChan, req, external, queueSize, panicked, deliveries>>

\* processJob: jw.EnqueueJob(jobID); return
processJobRequeue(w) ==
  /\ wpc[w] = "requeue"
  /\ EnqueueJob(wjobID[w])
  /\ EndAttempt(w)
  /\ UNCHANGED <<store, stopChan, req, external, queueSize, panicked, deliveries>>

\* processJob, successful execution: UpdateOne status = completed; return
processJobCompleted(w, oks) ==
  /\ wpc[w] = "execute"
  /\ ~ExecFails(wjob[w])
  /\ \E ok \in oks :
       IF ok
       THEN store' = UpdateOne(store, wjobID[w], [status |-> StatusCompleted])
       ELSE UNCHANGED store
  /\ EndAttempt(w)
  /\ UNCHANGED <<jobQueue, stopChan, req, external, queueSize, panicked, deliveries>>

\* ------------------------------------------------------------- JobHandler
CreateJobNoErrCheck(j, oks) ==
  /\ req[j] = "none"
  /\ \E payload \in Payloads, ok \in oks :
       IF payload = {}
       THEN /\ req' = [req EXCEPT ![j] = "badRequest"]
            /\ UNCHANGED store
       ELSE /\ req' = [req EXCEPT ![j] = "enqueue"]
            /\ IF ok THEN store' = InsertOne(store, j, NewJob(payload))
                     ELSE UNCHANGED store
  /\ UNCHANGED <<jobQueue, stopChan, wpc, wjobID, wjob, werr, external, queueSize, panicked, deliveries>>

\* CreateJob up to the insert: 400 on an empty payload, 500 when InsertOne
\* fails, else the record is in the store and the handler goes on to enqueue
CreateJob(j, oks) ==
  /\ req[j] = "none"
  /\ \E payload \in Payloads, ok \in oks :
       IF payload = {}
       THEN /\ req' = [req EXCEPT ![j] = "badRequest"]
            /\ UNCHANGED store
       ELSE IF ~ok
       THEN /\ req' = [req EXCEPT ![j] = "serverError"]
            /\ UNCHANGED store
       ELSE /\ store' = InsertOne(store, j, NewJob(payload))
            /\ req' = [req EXCEPT ![j] = "enqueue"]
  /\ UNCHANGED <<jobQueue, stopChan, wpc, wjobID, wjob, werr, external, queueSize, panicked, deliveries>>

\* CreateJob: jh.worker.EnqueueJob(jobID), then 201
CreateJobEnqueue(j) ==
  /\ req[j] = "enqueue"
  /\ EnqueueJob(j)
  /\ req' = [req EXCEPT ![j] = "created"]
  /\ UNCHANGED <<store, stopChan, wpc, wjobID, wjob, werr, external, queueSize, panicked, deliveries>>

RECURSIVE Sum(_, _)
Sum(f, S) == IF S = {} THEN 0
             ELSE LET x == CHOOSE x \in S : TRUE IN f[x] + Sum(f, S \ {x})

ExternalCalls == Sum(external, JobIds)

\* EnqueueJob called from outside CreateJob with an already persisted id
ExternalEnqueueJob(j) ==
  /\ ExternalCalls < MaxExternal
  /\ j \in DOMAIN store
  /\ EnqueueJob(j)
  /\ external' = [external EXCEPT ![j] = @ + 1]
  /\ UNCHANGED <<store, stopChan, wpc, wjobID, wjob, werr, req, queueSize, panicked, deliveries>>

\* ------------------------------------------------------------- specifications
\* The program as cmd/main.go wires it: CreateJob is the only outside producer.
Next ==
  \/ Start
  \/ mainStop
  \/ \E w \in Workers : workerReceive(w)
  \/ \E w \in Workers : workerStopped(w)
  \/ \E w \in Workers : processJobFind(w, BOOLEAN)
  \/ \E w \in Workers : processJobProcessing(w, BOOLEAN)
  \/ \E w \in Workers : processJobFailed(w, BOOLEAN)
  \/ \E w \in Workers : processJobRequeue(w)
  \/ \E w \in Workers : processJobCompleted(w, BOOLEAN)
  \/ \E j \in JobIds : CreateJob(j, BOOLEAN)
  \/ \E j \in JobIds : CreateJobEnqueue(j)

Spec == Init /\ [][Next]_vars

\* The history counter stops counting one past MaxRetries.
Counted(n) == IF n > MaxRetries THEN n ELSE n + 1

\* workerReceive, with the delivery recorded in the history variable
workerReceiveCounted(w) ==
  /\ wpc[w] = "select"
  /\ jobQueue # <<>>
  /\ wjobID' = [wjobID EXCEPT ![w] = Head(jobQueue)]
  /\ jobQueue' = Tail(jobQueue)
  /\ wpc' = [wpc EXCEPT ![w] = "find"]
  /\ deliveries' = [deliveries EXCEPT ![Head(jobQueue)] = Counted(@)]
  /\ UNCHANGED <<store, stopChan, wjob, werr, req, external, queueSize, panicked>>

\* The same program as Spec, with every delivery counted.
NextCounted ==
  \/ Start
  \/ mainStop
  \/ \E w \in Workers : workerReceiveCounted(w)
  \/ \E w \in Workers : workerStopped(w)
  \/ \E w \in Workers : processJobFind(w, BOOLEAN)
  \/ \E w \in Workers : processJobProcessing(w, BOOLEAN)
  \/ \E w \in Workers : processJobFailed(w, BOOLEAN)
  \/ \E w \in Workers : processJobRequeue(w)
  \/ \E w \in Workers : processJobCompleted(w, BOOLEAN)
  \/ \E j \in JobIds : CreateJob(j, BOOLEAN)
  \/ \E j \in JobIds : CreateJobEnqueue(j)

SpecCounted == Init /\ [][NextCounted]_vars

\* EnqueueJob is exported: any caller may hand it a persisted id again.
NextExternal ==
  \/ Next
  \/ \E j \in JobIds : ExternalEnqueueJob(j)

SpecExternal == Init /\ [][NextExternal]_vars

\* Stop is exported too: a caller may call it again.  A panic ends the process,
\* so no goroutine takes a step after it.
NextStopAgain ==
  /\ ~panicked
  /\ \/ Next
     \/ Stop

SpecStopAgain == Init /\ [][NextStopAgain]_vars

\* Scenarios A and B: the store's calls succeed, Stop is not called, and every
\* goroutine that can take a step eventually takes one.
NextFair ==
  \/ Start
  \/ \E w \in Workers : workerReceive(w)
  \/ \E w \in Workers : processJobFind(w, {TRUE})
  \/ \E w \in Workers : processJobProcessing(w, {TRUE})
  \/ \E w \in Workers : processJobFailed(w, {TRUE})
  \/ \E w \in Workers : processJobRequeue(w)
  \/ \E w \in Workers : processJobCompleted(w, {TRUE})
  \/ \E j \in JobIds : CreateJob(j, {TRUE})
  \/ \E j \in JobIds : CreateJobEnqueue(j)

workerStep(w) ==
  \/ workerReceive(w)
  \/ processJobFind(w, {TRUE})
  \/ processJobProcessing(w, {TRUE})
  \/ processJobFailed(w, {TRUE})
  \/ processJobRequeue(w)
  \/ processJobCompleted(w, {TRUE})

FairSpec ==
  /\ Init
  /\ [][NextFair]_vars
  /\ WF_vars(Start)
  /\ \A w \in Workers : WF_vars(workerStep(w))
  /\ \A j \in JobIds : WF_vars(CreateJobEnqueue(j))

\* Every step a worker goroutine can take, the store's calls failing or not.
workerRun(w) ==
  \/ workerReceive(w)
  \/ workerStopped(w)
  \/ processJobFind(w, BOOLEAN)
  \/ processJobProcessing(w, BOOLEAN)
  \/ processJobFailed(w, BOOLEAN)
  \/ processJobRequeue(w)
  \/ processJobCompleted(w, BOOLEAN)

\* The program of Spec under fair scheduling.  A select with both cases ready
\* picks one at random, so a worker that is at its select again and again with
\* stopChan closed eventually takes the stop case.
FairStopSpec ==
  /\ Init
  /\ [][Next]_vars
  /\ WF_vars(Start)
  /\ \A w \in Workers : WF_vars(workerRun(w)) /\ SF_vars(workerStopped(w))
  /\ \A j \in JobIds : WF_vars(CreateJobEnqueue(j))

TypeOK ==
  /\ DOMAIN store \subseteq JobIds
  /\ Len(jobQueue) <= queueSize

\* ------------------------------------------------------------- claims
\* Worker w takes the step of processJob that follows a failing execution.
FailedStep(w) == wpc[w] = "execute" /\ ExecFails(wjob[w]) /\ wpc'[w] # "execute"

\* C1 as stated: every delivery whose execution fails raises the persisted
\* retryCount by exactly 1 and leaves the persisted status Failed, and the
\* identifier is re-enqueued iff the new retryCount is below MaxRetries.
C1_EveryFailedDelivery ==
  [][\A w \in Workers : FailedStep(w) =>
        /\ store'[wjobID[w]].retryCount = store[wjobID[w]].retryCount + 1
        /\ store'[wjobID[w]].status = StatusFailed
        /\ (wpc'[w] = "requeue") <=> (store'[wjobID[w]].retryCount < MaxRetries)]_vars

\* The Failed write of worker w's attempt succeeded (err is nil after it).
FailedWritten(w) ==
  \/ wpc'[w] = "requeue" /\ ~werr'[w]
  \/ wpc'[w] = "select" /\ store' # store

\* C1 amended: a delivery whose execution fails and whose Failed write succeeds
\* raises the persisted retryCount by exactly 1, leaves the persisted status
\* Failed until the attempt ends, and re-enqueues the identifier (once, at the
\* tail) iff the new retryCount is below MaxRetries (3); when the Failed write
\* fails the record is left as it was.
C1_FailedDelivery ==
  /\ [][\A w \in Workers : FailedStep(w) =>
          /\ FailedWritten(w) =>
                /\ store'[wjobID[w]].retryCount = store[wjobID[w]].retryCount + 1
                /\ store'[wjobID[w]].status = StatusFailed
                /\ (wpc'[w] = "requeue") <=> (store'[wjobID[w]].retryCount < 3)
          /\ ~FailedWritten(w) => store' = store
          /\ jobQueue' = jobQueue]_vars
  /\ [](\A w \in Workers : wpc[w] = "requeue" /\ ~werr[w] =>
          /\ store[wjobID[w]].status = StatusFailed
          /\ store[wjobID[w]].retryCount = wjob[w].retryCount + 1)
  /\ [][\A w \in Workers : wpc[w] = "requeue" /\ wpc'[w] # "requeue" =>
          /\ jobQueue' = Append(jobQueue, wjobID[w])
          /\ store' = store]_vars

C1_Witness ==
  \E w \in Workers :
    /\ wpc[w] = "requeue" /\ ~werr[w]
    /\ store[wjobID[w]].status = StatusFailed
    /\ store[wjobID[w]].retryCount = 2

\* C2 as stated: the persisted retryCount of every record is at most
\* MaxRetries, over every interleaving of EnqueueJob calls for persisted ids.
C2_RetryCountBounded ==
  \A j \in DOMAIN store : store[j].retryCount <= MaxRetries

\* C2 amended: the persisted retryCount of a record is at most MaxRetries plus
\* the number of EnqueueJob calls made for its identifier besides CreateJob's
\* one; it is at most MaxRetries while CreateJob is the identifier's only
\* outside producer.
C2_RetryCountBoundedByCalls ==
  \A j \in DOMAIN store : store[j].retryCount <= 3 + external[j]

C2_Witness ==
  \E j \in DOMAIN store :
    /\ external[j] = 0
    /\ store[j].retryCount = 3
    /\ store[j].status = StatusFailed
    /\ \E k \in DOMAIN store : external[k] > 0 /\ store[k].retryCount > 0

\* A record whose execution reports success: its payload has no fail=true.
Succeeds(job) == <<"fail", TRUE>> \notin job.payload

\* Worker w takes the step of processJob that follows a successful execution.
CompletedStep(w) == wpc[w] = "execute" /\ Succeeds(wjob[w]) /\ wpc'[w] # "execute"

\* Number of entries of the queue q that carry the identifier j.
InQueue(q, j) == Cardinality({i \in 1..Len(q) : q[i] = j})

\* retryCount stays 0 and processJob never re-enqueues a succeeding job.
SuccessNeverRetried ==
  /\ [](\A j \in DOMAIN store : Succeeds(store[j]) => store[j].retryCount = 0)
  /\ [](\A w \in Workers : wpc[w] = "requeue" => ~Succeeds(wjob[w]))
  /\ [][\A j \in DOMAIN store : Succeeds(store[j]) /\ InQueue(jobQueue', j) > InQueue(jobQueue, j)
          => req[j] = "enqueue" /\ req'[j] = "created"]_vars

\* C3 as stated: a succeeding job created by CreateJob makes exactly one
\* transition to Completed, directly from Processing: the step that ends its
\* execution takes the record from Processing to Completed; retryCount stays
\* 0 and processJob never re-enqueues it.
C3_ExactlyOneCompletion ==
  /\ [][\A w \in Workers : CompletedStep(w) =>
          /\ store[wjobID[w]].status = StatusProcessing
          /\ store'[wjobID[w]].status = StatusCompleted]_vars
  /\ SuccessNeverRetried

\* C3 amended: a succeeding job created by CreateJob and enqueued once makes at
\* most one transition to Completed, directly from Processing, made by the
\* write that ends its execution; when that write fails the record stays
\* Processing and is never Completed.  Its retryCount stays 0 in every state
\* and processJob never re-enqueues its identifier.
C3_AtMostOneCompletion ==
  /\ [][\A w \in Workers : CompletedStep(w) =>
          /\ store[wjobID[w]].status = StatusProcessing
          /\ \/ store' = [store EXCEPT ![wjobID[w]].status = StatusCompleted]
             \/ store' = store]_vars
  /\ [][\A j \in DOMAIN store :
          store[j].status # StatusCompleted /\ store'[j].status = StatusCompleted =>
            /\ store[j].status = StatusProcessing
            /\ \E w \in Workers : CompletedStep(w) /\ wjobID[w] = j]_vars
  /\ [][\A j \in DOMAIN store :
          store[j].status = StatusCompleted => store'[j] = store[j]]_vars
  /\ SuccessNeverRetried

C3_Witness ==
  \E j \in DOMAIN store :
    /\ Succeeds(store[j])
    /\ store[j].status = StatusCompleted
    /\ store[j].retryCount = 0
    /\ req[j] = "created"

\* C4: while Stop has not been called, the workers are never all blocked in
\* the retry re-enqueue on a full queue (a state that no step of any worker
\* can leave, since only workers receive from the queue).
C4_PoolNeverHalts ==
  ~(/\ stopChan = "open"
    /\ Len(jobQueue) = queueSize
    /\ \A w \in Workers : wpc[w] = "requeue")

\* C5: after Stop() no worker receives a further identifier from the queue.
C5_NoDequeueAfterStop ==
  [][stopChan = "closed" =>
       \A w \in Workers : ~(wpc[w] = "select" /\ wpc'[w] = "find")]_vars

\* A sender blocked in (or about to run) jw.jobQueue <- id: a CreateJob
\* handler past its insert, or a worker in the retry re-enqueue.
Senders == {<<"req", j>> : j \in {k \in JobIds : req[k] = "enqueue"}}
           \cup {<<"worker", w>> : w \in {v \in Workers : wpc[v] = "requeue"}}

SendersNext == {<<"req", j>> : j \in {k \in JobIds : req'[k] = "enqueue"}}
               \cup {<<"worker", w>> : w \in {v \in Workers : wpc'[v] = "requeue"}}

SentId(s) == IF s[1] = "req" THEN s[2] ELSE wjobID[s[2]]

\* C6: the queue never holds more than queueSize identifiers; a send can
\* complete whenever fewer than queueSize are buffered; while the queue is full
\* every sender stays blocked and the buffer is only consumed from its head;
\* a send that completes appends its identifier and drops or overwrites nothing.
C6_BoundedBlockingQueue ==
  /\ [](Len(jobQueue) <= queueSize)
  /\ [](Len(jobQueue) < queueSize =>
          /\ \A j \in JobIds : req[j] = "enqueue" => ENABLED CreateJobEnqueue(j)
          /\ \A w \in Workers : wpc[w] = "requeue" => ENABLED processJobRequeue(w))
  /\ [][Len(jobQueue) = queueSize =>
          /\ Senders \subseteq SendersNext
          /\ jobQueue' \in {jobQueue, Tail(jobQueue)}]_vars
  /\ [][\A s \in Senders : s \notin SendersNext =>
          jobQueue' = Append(jobQueue, SentId(s))]_vars

C6_Witness ==
  /\ Len(jobQueue) = queueSize
  /\ \E j \in JobIds : req[j] = "enqueue"
  /\ \E w \in Workers : wpc[w] = "select"

\* A record in a terminal state: Completed, or Failed with its retries used up.
Terminal(job) ==
  \/ job.status = StatusCompleted
  \/ job.status = StatusFailed /\ job.retryCount >= MaxRetries

\* C9: once a record is Completed, or Failed with retryCount >= MaxRetries, no
\* later step changes its status or retryCount, and its identifier is never
\* enqueued again (it is in no queue slot and no sender holds it).
C9_TerminalStates ==
  /\ [][\A j \in DOMAIN store : Terminal(store[j]) =>
          /\ store'[j].status = store[j].status
          /\ store'[j].retryCount = store[j].retryCount
          /\ InQueue(jobQueue', j) <= InQueue(jobQueue, j)]_vars
  /\ [](\A j \in DOMAIN store : Terminal(store[j]) =>
          /\ InQueue(jobQueue, j) = 0
          /\ \A s \in Senders : SentId(s) # j)

C9_Witness ==
  /\ \E j \in DOMAIN store : store[j].status = StatusFailed /\ store[j].retryCount = 3
  /\ \E j \in DOMAIN store : store[j].status = StatusCompleted
  /\ \A w \in Workers : wpc[w] = "select"

\* C10: every identifier in the queue, or held by a sender, has a record in
\* the store; a CreateJob whose insert failed (or that rejected the request)
\* left no record and enqueues nothing.
C10_RecordBeforeEnqueue ==
  /\ \A i \in 1..Len(jobQueue) : jobQueue[i] \in DOMAIN store
  /\ \A s \in Senders : SentId(s) \in DOMAIN store
  /\ \A j \in JobIds : req[j] \in {"enqueue", "created"} <=> j \in DOMAIN store
  /\ \A j \in JobIds : req[j] \in {"serverError", "badRequest"} =>
        /\ InQueue(jobQueue, j) = 0
        /\ \A w \in Workers : wjobID[w] # j

C10_Witness ==
  /\ \E j \in JobIds : req[j] = "serverError"
  /\ \E j \in JobIds : req[j] = "created" /\ InQueue(jobQueue, j) = 1
                          /\ store[j].status = StatusFailed

\* The job j has been submitted (its record is in the store) with fail=true.
SubmittedFailing(j) == j \in DOMAIN store /\ <<"fail", TRUE>> \in store[j].payload

\* The job j has been submitted with a payload that has no fail=true.
SubmittedSucceeding(j) == j \in DOMAIN store /\ <<"fail", TRUE>> \notin store[j].payload

\* The persisted record of j has the given status and retryCount.
Persisted(j, status, count) ==
  j \in DOMAIN store /\ store[j].status = status /\ store[j].retryCount = count

\* C7 (Scenario A): every submitted job with fail=true eventually reaches
\* status Failed with retryCount 3 and stays there, and is never Completed.
C7_ScenarioA ==
  \A j \in JobIds :
    /\ [](SubmittedFailing(j) =>
            <>[]Persisted(j, StatusFailed, 3))
    /\ [](SubmittedFailing(j) => store[j].status # StatusCompleted)

\* C8 (Scenario B): every submitted job without fail=true eventually reaches
\* status Completed with retryCount 0 and stays there, also when failing jobs
\* share the queue and the workers.
C8_ScenarioB ==
  \A j \in JobIds :
    [](SubmittedSucceeding(j) =>
         <>[]Persisted(j, StatusCompleted, 0))

\* Worker w receives an identifier from the queue in this step.
Receives(w) == wpc[w] = "select" /\ wpc'[w] = "find"

\* C11: identifiers are delivered in FIFO order: every receive takes the
\* identifier whose enqueue completed first among those buffered, and the
\* buffer otherwise only grows at its tail, so an identifier enqueued before
\* another is dequeued before it, whichever producers and workers are involved.
C11_FifoDelivery ==
  /\ [][\A w \in Workers : Receives(w) =>
          /\ wjobID'[w] = jobQueue[1]
          /\ jobQueue' = SubSeq(jobQueue, 2, Len(jobQueue))]_vars
  /\ [][(\A w \in Workers : ~Receives(w)) =>
          \/ jobQueue' = jobQueue
          \/ /\ Len(jobQueue') = Len(jobQueue) + 1
             /\ SubSeq(jobQueue', 1, Len(jobQueue)) = jobQueue]_vars

C11_Witness ==
  \E w \in Workers :
    /\ wpc[w] = "find"
    /\ Len(jobQueue) = 1
    /\ jobQueue[1] # wjobID[w]
    /\ queueSize = 2
    /\ \A j \in JobIds : req[j] = "created"

\* C12: a failed status-changing store write ends the processing attempt: a
\* worker is past the Processing write only if it succeeded, and no worker goes
\* on to the re-enqueue with the error of its Failed write.
C12_WriteFailureEndsAttempt ==
  \A w \in Workers :
    /\ wpc[w] = "execute" => store[wjobID[w]].status = StatusProcessing
    /\ wpc[w] = "requeue" => ~werr[w]

\* C13: an identifier enqueued once by its producer is delivered to workers at
\* most MaxRetries (3) times, that is re-enqueued at most MaxRetries - 1 times,
\* also when store writes fail.
C13_BoundedDeliveries ==
  \A j \in JobIds : deliveries[j] <= MaxRetries

\* C16: while an identifier sits in the queue because processJob re-enqueued
\* it (it has been delivered before), its persisted status is Failed and its
\* persisted retryCount is the number of failed attempts made so far.
C16_RequeuedIsFailed ==
  \A j \in DOMAIN store :
    InQueue(jobQueue, j) > 0 /\ deliveries[j] > 0 =>
      /\ store[j].status = StatusFailed
      /\ store[j].retryCount = deliveries[j]

\* Worker w takes the FindOne step of processJob.
FindStep(w) == wpc[w] = "find" /\ wpc'[w] # "find"

\* C14: when the fetch of a dequeued identifier finds no record or fails,
\* processJob abandons the delivery: the store and the queue are left as they
\* were and the worker is back at its select, holding nothing; processJob goes
\* on only with the record it fetched.
C14_NotFoundAbandons ==
  [][\A w \in Workers : FindStep(w) =>
       \/ /\ wpc'[w] = "processing"
          /\ wjobID[w] \in DOMAIN store
          /\ wjob'[w] = store[wjobID[w]]
          /\ wjobID'[w] = wjobID[w]
          /\ store' = store /\ jobQueue' = jobQueue
       \/ /\ wpc'[w] = "select"
          /\ wjobID'[w] = 0
          /\ store' = store /\ jobQueue' = jobQueue]_vars

C14_Witness ==
  \E j \in DOMAIN store :
    /\ \A w \in Workers : wpc[w] = "select" /\ wjobID[w] = 0
    /\ store[j] = NewJob(store[j].payload)
    /\ InQueue(jobQueue, j) = 0
    /\ req[j] = "created"

\* The status changes the state machine allows.
AllowedTransitions ==
  { <<StatusPending, StatusProcessing>>, <<StatusFailed, StatusProcessing>>,
    <<StatusProcessing, StatusCompleted>>, <<StatusProcessing, StatusFailed>> }

\* C15: every change of a record's persisted status is Pending -> Processing,
\* Failed -> Processing (only with retryCount < MaxRetries), Processing ->
\* Completed or Processing -> Failed; a record's first status is Pending.
C15_StateMachine ==
  /\ [][\A j \in DOMAIN store : store'[j].status # store[j].status =>
          /\ <<store[j].status, store'[j].status>> \in AllowedTransitions
          /\ store[j].status = StatusFailed => store[j].retryCount < MaxRetries]_vars
  /\ [][\A j \in DOMAIN store' : j \notin DOMAIN store =>
          store'[j].status = StatusPending]_vars

C15_Witness ==
  \E j \in DOMAIN store :
    /\ store[j].status = StatusProcessing
    /\ store[j].retryCount = 2
    /\ \E k \in DOMAIN store : store[k].status = StatusCompleted

\* C17: after Stop() every started worker goroutine eventually returns from
\* its loop, whatever it was doing when Stop() was called.
C17_StopReachesEveryWorker ==
  \A w \in Workers :
    [](stopChan = "closed" /\ wpc[w] # "new" => <>(wpc[w] = "returned"))

\* Deliveries of j outstanding: entries in the queue, workers holding j, and
\* the CreateJob handler about to enqueue it.
Outstanding(j) ==
  InQueue(jobQueue, j) + Cardinality({w \in Workers : wjobID[w] = j})
    + (IF req[j] = "enqueue" THEN 1 ELSE 0)

C19_StopIsSingleUse ==
  /\ [](stopChan = "open" => ~panicked)
  /\ [](stopChan = "open" => ENABLED (Stop /\ stopChan' = "closed" /\ ~panicked'))
  /\ [](stopChan = "closed" /\ ~panicked => ENABLED (Stop /\ panicked'))
  /\ [][stopChan' # stopChan => stopChan = "open" /\ stopChan' = "closed" /\ ~panicked']_vars
  /\ [][panicked' # panicked => stopChan = "closed" /\ panicked' /\ stopChan' = "closed"]_vars

C19_Witness ==
  /\ panicked
  /\ stopChan = "closed"
  /\ \A w \in Workers : wpc[w] = "new"
====
